---------------------------- MODULE Spec2Model ----------------------------
(***************************************************************************)
(* A model of the hybi13 frame processor of websocketpp                    *)
(* (websocketpp/processors/hybi13.hpp): the incremental frame decoder      *)
(* (consume / get_message), its header validation and its payload          *)
(* processor.  Bytes are the integers 0..255.                              *)
(***************************************************************************)
EXTENDS Integers, Sequences, FiniteSets, TLC

(***************************************************************************)
(* Bounds of the model.                                                    *)
(***************************************************************************)
\* longest chunk handed to one consume call
MaxChunk == 3
\* most frames the peer sends between two messages handed to the caller
MaxFrames == 2
\* longest message buffer the model lets a consume call build
MaxMsgLen == 2

(***************************************************************************)
(* Program constants.                                                      *)
(***************************************************************************)
BASIC_HEADER_LENGTH == 2
MAX_EXTENDED_HEADER_LENGTH == 12
payload_size_basic == 125
payload_size_extended == 65535
payload_size_code_16bit == 126
payload_size_code_64bit == 127
\* sizeof(size_t) of the build
SizeofSizeT == 8

Byte == 0..255

\* processor states (enum state)
HEADER_BASIC == "HEADER_BASIC"
HEADER_EXTENDED == "HEADER_EXTENDED"
EXTENSION == "EXTENSION"
APPLICATION == "APPLICATION"
READY == "READY"
FATAL_ERROR == "FATAL_ERROR"

\* opcodes (frame::opcode)
CONTINUATION == 0
TEXT == 1
BINARY == 2
CLOSE == 8
PING == 9
PONG == 10

\* lib::error_code() and the processor errors
NoError == "none"

\* a null message_ptr is the empty sequence, a message a one-element sequence
NullMsg == <<>>

(***************************************************************************)
(* Bit and byte helpers.                                                   *)
(***************************************************************************)
Bit(x, i) == (x \div (2 ^ i)) % 2

Xor8(a, b) ==
    LET bit(i) == ((Bit(a, i) + Bit(b, i)) % 2) * (2 ^ i)
    IN  bit(0) + bit(1) + bit(2) + bit(3) + bit(4) + bit(5) + bit(6) + bit(7)

Min(a, b) == IF a < b THEN a ELSE b

Drop(s, n) == SubSeq(s, n + 1, Len(s))
Take(s, n) == SubSeq(s, 1, n)

\* big-endian value of a byte sequence (Horner, so leading zero bytes cost nothing)
RECURSIVE BigEndian(_)
BigEndian(s) ==
    IF s = <<>> THEN 0
    ELSE BigEndian(Take(s, Len(s) - 1)) * 256 + s[Len(s)]

\* n as a big-endian sequence of k bytes
RECURSIVE ToBytes(_, _)
ToBytes(n, k) == IF k = 0 THEN <<>> ELSE ToBytes(n \div 256, k - 1) \o <<n % 256>>

(***************************************************************************)
(* frame.hpp: the header model.  A basic header is [b0, b1], an extended   *)
(* header a sequence of MAX_EXTENDED_HEADER_LENGTH bytes.                  *)
(***************************************************************************)
get_fin(h) == Bit(h.b0, 7) = 1
get_rsv1(h) == Bit(h.b0, 6) = 1
get_rsv2(h) == Bit(h.b0, 5) = 1
get_rsv3(h) == Bit(h.b0, 4) = 1
get_opcode(h) == h.b0 % 16
get_masked(h) == Bit(h.b1, 7) = 1
get_basic_size(h) == h.b1 % 128

is_control(op) == op >= 8
reserved(op) == (op >= 3 /\ op <= 7) \/ (op >= 11 /\ op <= 15)
invalid(op) == op > 15 \/ op < 0

\* number of length-extension bytes the basic header announces
LengthBytes(h) ==
    IF get_basic_size(h) = payload_size_code_16bit THEN 2
    ELSE IF get_basic_size(h) = payload_size_code_64bit THEN 8
    ELSE 0

get_header_len(h) ==
    BASIC_HEADER_LENGTH + (IF get_masked(h) THEN 4 ELSE 0) + LengthBytes(h)

get_payload_size(h, e) ==
    IF get_basic_size(h) <= payload_size_basic THEN get_basic_size(h)
    ELSE BigEndian(Take(e, LengthBytes(h)))

ZeroKey == <<0, 0, 0, 0>>

get_masking_key(h, e) ==
    IF ~get_masked(h) THEN ZeroKey
    ELSE SubSeq(e, LengthBytes(h) + 1, LengthBytes(h) + 4)

\* the prepared key is the key as a machine word; the model keeps its 4 bytes
prepare_masking_key(key) == key

\* the key rotated by n bytes
RotateKey(key, n) == [i \in 1..4 |-> key[((i - 1 + n) % 4) + 1]]

\* word_mask_circ: XOR of buf with the cyclic key; returns the masked bytes and the
\* key rotated by the number of bytes masked
word_mask_circ(buf, prepared_key) ==
    [bytes |-> [i \in 1..Len(buf) |-> Xor8(buf[i], prepared_key[((i - 1) % 4) + 1])],
     key   |-> RotateKey(prepared_key, Len(buf))]

(***************************************************************************)
(* utf8_validator.hpp: the streaming validator, a DFA over bytes.          *)
(***************************************************************************)
UTF8_ACCEPT == "accept"
UTF8_REJECT == "reject"

InRange(b, lo, hi) == b >= lo /\ b <= hi

utf8_decode(state, b) ==
    CASE state = UTF8_ACCEPT ->
            IF b <= 127 THEN UTF8_ACCEPT
            ELSE IF InRange(b, 194, 223) THEN "cont1"
            ELSE IF b = 224 THEN "e0"
            ELSE IF InRange(b, 225, 236) \/ InRange(b, 238, 239) THEN "cont2"
            ELSE IF b = 237 THEN "ed"
            ELSE IF b = 240 THEN "f0"
            ELSE IF InRange(b, 241, 243) THEN "cont3"
            ELSE IF b = 244 THEN "f4"
            ELSE UTF8_REJECT
      [] state = "cont1" -> IF InRange(b, 128, 191) THEN UTF8_ACCEPT ELSE UTF8_REJECT
      [] state = "cont2" -> IF InRange(b, 128, 191) THEN "cont1" ELSE UTF8_REJECT
      [] state = "cont3" -> IF InRange(b, 128, 191) THEN "cont2" ELSE UTF8_REJECT
      [] state = "e0" -> IF InRange(b, 160, 191) THEN "cont1" ELSE UTF8_REJECT
      [] state = "ed" -> IF InRange(b, 128, 159) THEN "cont1" ELSE UTF8_REJECT
      [] state = "f0" -> IF InRange(b, 144, 191) THEN "cont2" ELSE UTF8_REJECT
      [] state = "f4" -> IF InRange(b, 128, 143) THEN "cont2" ELSE UTF8_REJECT
      [] OTHER -> UTF8_REJECT

\* validator::decode(b, e): feeds the bytes in order, stops at the first reject
RECURSIVE validator_decode(_, _)
validator_decode(state, bytes) ==
    IF bytes = <<>> THEN [ok |-> TRUE, state |-> state]
    ELSE LET s == utf8_decode(state, Head(bytes))
         IN  IF s = UTF8_REJECT THEN [ok |-> FALSE, state |-> s]
             ELSE validator_decode(s, Tail(bytes))

validator_complete(state) == state = UTF8_ACCEPT

(***************************************************************************)
(* The collaborators: message manager and permessage-compress extension.   *)
(***************************************************************************)
\* msg_manager::get_message(op, size): a fresh message buffer
manager_get_message(op) == <<[opcode |-> op, payload |-> <<>>]>>

\* a run token of the toy codec standing for two bytes 'A'
RunToken == 241
Expand(b) == IF b = RunToken THEN <<65, 65>> ELSE <<b>>

\* permessage_compress::decompress(buf, len, out): the bytes appended to out
RECURSIVE decompress(_)
decompress(buf) ==
    IF buf = <<>> THEN <<>> ELSE Expand(Head(buf)) \o decompress(Tail(buf))


(***************************************************************************)
(* The processor object.  `this' is a record of the members of hybi13:     *)
(* m_server, m_permessage_compress (is_enabled), m_state, m_bytes_needed,  *)
(* m_cursor, m_basic_header, m_extended_header, m_data_msg, m_control_msg  *)
(* and m_current_msg ("data" or "control": the slot it points at).         *)
(***************************************************************************)
ZeroBasicHeader == [b0 |-> 0, b1 |-> 0]
ZeroExtendedHeader == [i \in 1..MAX_EXTENDED_HEADER_LENGTH |-> 0]

\* struct msg_metadata
msg_metadata(m, key) ==
    [msg_ptr |-> m, prepared_key |-> prepare_masking_key(key), validator |-> UTF8_ACCEPT]

\* msg_metadata(): a null message, a fresh validator
EmptyMetadata == [msg_ptr |-> NullMsg, prepared_key |-> ZeroKey, validator |-> UTF8_ACCEPT]

reset_headers(this) ==
    [this EXCEPT !.m_state = HEADER_BASIC,
                 !.m_bytes_needed = BASIC_HEADER_LENGTH,
                 !.m_basic_header = ZeroBasicHeader,
                 !.m_extended_header = ZeroExtendedHeader]

\* hybi13(secure, server, manager)
Construct(server) ==
    reset_headers([m_server |-> server,
                   m_permessage_compress |-> FALSE,
                   m_state |-> HEADER_BASIC,
                   m_bytes_needed |-> 0,
                   m_cursor |-> 0,
                   m_basic_header |-> ZeroBasicHeader,
                   m_extended_header |-> ZeroExtendedHeader,
                   m_data_msg |-> EmptyMetadata,
                   m_control_msg |-> EmptyMetadata,
                   m_current_msg |-> "data"])

ready(this) == this.m_state = READY
get_error(this) == this.m_state = FATAL_ERROR

\* the slot m_current_msg points at
CurrentMsg(this) ==
    IF this.m_current_msg = "control" THEN this.m_control_msg ELSE this.m_data_msg

SetCurrentMsg(this, md) ==
    IF this.m_current_msg = "control" THEN [this EXCEPT !.m_control_msg = md]
    ELSE [this EXCEPT !.m_data_msg = md]

(***************************************************************************)
(* Header validation.                                                      *)
(***************************************************************************)
\* the masking-direction check letting a client accept masked frames
MaskingCheckServerOnly(h, is_server) ==
    IF is_server /\ ~get_masked(h) THEN "masking_required" ELSE NoError

\* the masking-direction check that ends validate_incoming_basic_header
MaskingCheck(h, is_server) ==
    IF is_server /\ ~get_masked(h) THEN "masking_required"
    ELSE IF ~is_server /\ get_masked(h) THEN "masking_forbidden"
    ELSE NoError

\* the continuation checks without the second one
ContinuationCheckFirstOnly(op, new_msg) ==
    IF new_msg /\ op = CONTINUATION THEN "invalid_continuation" ELSE NoError

\* the two continuation checks of validate_incoming_basic_header
ContinuationCheck(op, new_msg) ==
    IF new_msg /\ op = CONTINUATION THEN "invalid_continuation"
    ELSE IF ~new_msg /\ ~is_control(op) /\ op # CONTINUATION THEN "invalid_continuation"
    ELSE NoError

\* the basic-header validation without the fragmentation check
validate_incoming_basic_header_unfragmented(this, h, is_server, new_msg) ==
    IF is_control(get_opcode(h)) /\ get_basic_size(h) > payload_size_basic
        THEN "control_too_big"
    ELSE IF get_rsv1(h) /\ (~this.m_permessage_compress \/ is_control(get_opcode(h)))
        THEN "invalid_rsv_bit"
    ELSE IF get_rsv2(h) \/ get_rsv3(h) THEN "invalid_rsv_bit"
    ELSE IF reserved(get_opcode(h)) THEN "invalid_opcode"
    ELSE IF invalid(get_opcode(h)) THEN "invalid_opcode"
    ELSE IF ContinuationCheck(get_opcode(h), new_msg) # NoError
        THEN ContinuationCheck(get_opcode(h), new_msg)
    ELSE MaskingCheck(h, is_server)

\* the basic-header validation with the masking check made first
validate_incoming_basic_header_masking_first(this, h, is_server, new_msg) ==
    IF MaskingCheck(h, is_server) # NoError THEN MaskingCheck(h, is_server)
    ELSE IF is_control(get_opcode(h)) /\ get_basic_size(h) > payload_size_basic
        THEN "control_too_big"
    ELSE IF get_rsv1(h) /\ (~this.m_permessage_compress \/ is_control(get_opcode(h)))
        THEN "invalid_rsv_bit"
    ELSE IF get_rsv2(h) \/ get_rsv3(h) THEN "invalid_rsv_bit"
    ELSE IF reserved(get_opcode(h)) THEN "invalid_opcode"
    ELSE IF invalid(get_opcode(h)) THEN "invalid_opcode"
    ELSE IF is_control(get_opcode(h)) /\ ~get_fin(h) THEN "fragmented_control"
    ELSE ContinuationCheck(get_opcode(h), new_msg)

validate_incoming_basic_header(this, h, is_server, new_msg) ==
    LET op == get_opcode(h)
    IN  IF is_control(op) /\ get_basic_size(h) > payload_size_basic
            THEN "control_too_big"
        ELSE IF get_rsv1(h) /\ (~this.m_permessage_compress \/ is_control(op))
            THEN "invalid_rsv_bit"
        ELSE IF get_rsv2(h) \/ get_rsv3(h) THEN "invalid_rsv_bit"
        ELSE IF reserved(op) THEN "invalid_opcode"
        ELSE IF invalid(op) THEN "invalid_opcode"
        ELSE IF is_control(op) /\ ~get_fin(h) THEN "fragmented_control"
        ELSE IF ContinuationCheck(op, new_msg) # NoError
            THEN ContinuationCheck(op, new_msg)
        ELSE MaskingCheck(h, is_server)

\* the extended-header validation with strict comparisons
validate_incoming_extended_header_strict(h, e) ==
    IF get_basic_size(h) = payload_size_code_16bit
            /\ get_payload_size(h, e) < payload_size_basic
        THEN "non_minimal_encoding"
    ELSE IF get_basic_size(h) = payload_size_code_64bit
            /\ get_payload_size(h, e) < payload_size_extended
        THEN "non_minimal_encoding"
    ELSE NoError

validate_incoming_extended_header(h, e) ==
    LET basic_size == get_basic_size(h)
        payload_size == get_payload_size(h, e)
    IN  IF basic_size = payload_size_code_16bit /\ payload_size <= payload_size_basic
            THEN "non_minimal_encoding"
        ELSE IF basic_size = payload_size_code_64bit
                /\ payload_size <= payload_size_extended
            THEN "non_minimal_encoding"
        ELSE IF SizeofSizeT = 4 /\ (payload_size \div 65536) \div 65536 > 0
            THEN "requires_64bit"
        ELSE NoError

(***************************************************************************)
(* Byte copying.  Each returns the processor after the copy and the number *)
(* of bytes taken from buf (the unread rest of the chunk).                 *)
(***************************************************************************)
copy_basic_header_bytes(this, buf) ==
    IF Len(buf) = 0 \/ this.m_bytes_needed = 0 THEN [this |-> this, n |-> 0]
    ELSE IF Len(buf) > 1 /\ this.m_bytes_needed = 2 THEN
        [this |-> [this EXCEPT !.m_basic_header = [b0 |-> buf[1], b1 |-> buf[2]],
                               !.m_bytes_needed = @ - 2],
         n |-> 2]
    ELSE IF this.m_bytes_needed = 2 THEN
        [this |-> [this EXCEPT !.m_basic_header.b0 = buf[1], !.m_bytes_needed = @ - 1],
         n |-> 1]
    ELSE
        [this |-> [this EXCEPT !.m_basic_header.b1 = buf[1], !.m_bytes_needed = @ - 1],
         n |-> 1]

copy_extended_header_bytes(this, buf) ==
    LET bytes_to_read == Min(this.m_bytes_needed, Len(buf))
    IN  [this |-> [this EXCEPT
                     !.m_extended_header =
                         [i \in 1..MAX_EXTENDED_HEADER_LENGTH |->
                            IF i > this.m_cursor /\ i <= this.m_cursor + bytes_to_read
                            THEN buf[i - this.m_cursor] ELSE @[i]],
                     !.m_cursor = @ + bytes_to_read,
                     !.m_bytes_needed = @ - bytes_to_read],
         n |-> bytes_to_read]

(***************************************************************************)
(* process_payload_bytes(buf, len, ec): buf is exactly the len bytes to    *)
(* process.  Returns the processor, the count returned, the error and the  *)
(* bytes of buf as the call leaves them (unmasking works in place).        *)
(***************************************************************************)
\* where the validated range starts in the message buffer
ValidateFrom(compressed, old_size, new_size) ==
    IF compressed THEN new_size - old_size ELSE old_size

\* the bytes of the chunk after unmasking in place, and the key rotated on
Unmask(cur, masked, buf) ==
    IF masked THEN word_mask_circ(buf, cur.prepared_key)
    ELSE [bytes |-> buf, key |-> cur.prepared_key]

\* the message payload after the chunk is decompressed into it or appended to it
AppendPayload(old, compressed, bytes) ==
    IF compressed THEN old \o decompress(bytes) ELSE old \o bytes

\* the validator fed the message payload from offset on, for a text message
ValidatePayload(cur, out, offset) ==
    IF cur.msg_ptr[1].opcode = TEXT
    THEN validator_decode(cur.validator, Drop(out, offset))
    ELSE [ok |-> TRUE, state |-> cur.validator]

\* the current message after the chunk is processed
ProcessedMsg(cur, um, out, v) ==
    [msg_ptr |-> <<[cur.msg_ptr[1] EXCEPT !.payload = out]>>,
     prepared_key |-> um.key,
     validator |-> v.state]

\* process_payload_bytes counting the bytes it rejected as processed
PayloadResultCounting(this, len, um, md, ok) ==
    [this |-> [SetCurrentMsg(this, md) EXCEPT !.m_bytes_needed = @ - len],
     n |-> len, ec |-> IF ok THEN NoError ELSE "invalid_utf8", buf |-> um.bytes]

\* what process_payload_bytes returns once the validator has run
PayloadResult(this, len, um, md, ok) ==
    IF ~ok
    THEN [this |-> SetCurrentMsg(this, md), n |-> 0, ec |-> "invalid_utf8",
          buf |-> um.bytes]
    ELSE [this |-> [SetCurrentMsg(this, md) EXCEPT !.m_bytes_needed = @ - len],
          n |-> len, ec |-> NoError, buf |-> um.bytes]

PayloadValidated(this, len, cur, um, out, v) ==
    PayloadResult(this, len, um, ProcessedMsg(cur, um, out, v), v.ok)

PayloadAppended(this, len, cur, um, compressed, out) ==
    PayloadValidated(this, len, cur, um, out,
        ValidatePayload(cur, out,
            ValidateFrom(compressed, Len(cur.msg_ptr[1].payload), Len(out))))

PayloadUnmasked(this, len, cur, um, compressed) ==
    PayloadAppended(this, len, cur, um, compressed,
        AppendPayload(cur.msg_ptr[1].payload, compressed, um.bytes))

process_payload_bytes(this, buf) ==
    PayloadUnmasked(this, Len(buf), CurrentMsg(this),
        Unmask(CurrentMsg(this), get_masked(this.m_basic_header), buf),
        this.m_permessage_compress /\ get_rsv1(this.m_basic_header))

(***************************************************************************)
(* consume(buf, len, ec).  The call is a record c: t the processor, buf    *)
(* the chunk (as the call has left it so far), p and ec the locals, reqs   *)
(* the buffers requested from the message manager, brk set by a break or   *)
(* return inside the loop.                                                 *)
(***************************************************************************)
\* the loop of consume going on when a message is ready
LoopCondIgnoringReady(c) ==
    /\ c.t.m_state # FATAL_ERROR
    /\ (c.p < Len(c.buf) \/ c.t.m_bytes_needed = 0)

\* the loop of consume leaving the last byte of the chunk unread
LoopCondOffByOne(c) ==
    /\ c.t.m_state # READY
    /\ c.t.m_state # FATAL_ERROR
    /\ (c.p + 1 < Len(c.buf) \/ c.t.m_bytes_needed = 0)

\* the condition of the while loop
LoopCond(c) ==
    /\ c.t.m_state # READY
    /\ c.t.m_state # FATAL_ERROR
    /\ (c.p < Len(c.buf) \/ c.t.m_bytes_needed = 0)

\* the step to the extended header that leaves the cursor where it is
EnterExtendedKeepingCursor(this) ==
    [this EXCEPT !.m_state = HEADER_EXTENDED,
                 !.m_bytes_needed = get_header_len(this.m_basic_header) - BASIC_HEADER_LENGTH]

\* the basic header is complete and valid: on to the extended header
EnterExtended(this) ==
    [this EXCEPT !.m_state = HEADER_EXTENDED,
                 !.m_cursor = 0,
                 !.m_bytes_needed = get_header_len(this.m_basic_header) - BASIC_HEADER_LENGTH]

\* the extended header is complete and valid: select or create the message
EnterApplication(this) ==
    LET h == this.m_basic_header
        e == this.m_extended_header
        op == get_opcode(h)
        t1 == [this EXCEPT !.m_state = APPLICATION,
                           !.m_bytes_needed = get_payload_size(h, e)]
    IN  IF is_control(op) THEN
            [t1 EXCEPT !.m_control_msg =
                           msg_metadata(manager_get_message(op), get_masking_key(h, e)),
                       !.m_current_msg = "control"]
        ELSE IF t1.m_data_msg.msg_ptr = NullMsg THEN
            [t1 EXCEPT !.m_data_msg =
                           msg_metadata(manager_get_message(op), get_masking_key(h, e)),
                       !.m_current_msg = "data"]
        ELSE
            [t1 EXCEPT !.m_data_msg.prepared_key =
                           prepare_masking_key(get_masking_key(h, e)),
                       !.m_current_msg = "data"]

\* whether EnterApplication asks the message manager for a buffer
RequestsBuffer(this) ==
    is_control(get_opcode(this.m_basic_header)) \/ this.m_data_msg.msg_ptr = NullMsg

\* whether the end of a FIN frame must find the validator complete
NeedsComplete(this) == get_opcode(this.m_basic_header) = TEXT

\* the end of a frame that drops the open message when the frame is not final
FrameDoneDroppingMessage(c) ==
    IF get_fin(c.t.m_basic_header) THEN
        IF NeedsComplete(c.t) /\ ~validator_complete(CurrentMsg(c.t).validator)
        THEN [c EXCEPT !.ec = "invalid_utf8", !.brk = TRUE]
        ELSE [c EXCEPT !.t.m_state = READY]
    ELSE [c EXCEPT !.t = reset_headers([c.t EXCEPT !.m_data_msg = EmptyMetadata])]

\* the payload of the frame is complete
FrameDone(c) ==
    IF get_fin(c.t.m_basic_header) THEN
        IF NeedsComplete(c.t) /\ ~validator_complete(CurrentMsg(c.t).validator)
        THEN [c EXCEPT !.ec = "invalid_utf8", !.brk = TRUE]
        ELSE [c EXCEPT !.t.m_state = READY]
    ELSE [c EXCEPT !.t = reset_headers(c.t)]

\* the call after a copy routine took r.n bytes of the chunk
Copied(c, r) == [c EXCEPT !.t = r.this, !.p = @ + r.n]

\* the basic header is validated with result ec
BasicHeaderChecked(c, ec) ==
    IF ec # NoError THEN [c EXCEPT !.ec = ec, !.brk = TRUE]
    ELSE [c EXCEPT !.ec = ec, !.t = EnterExtended(c.t)]

\* state HEADER_BASIC, after the copy
BasicHeaderRead(c) ==
    IF c.t.m_bytes_needed > 0 THEN c
    ELSE BasicHeaderChecked(c,
             validate_incoming_basic_header(c.t, c.t.m_basic_header, c.t.m_server,
                                            c.t.m_data_msg.msg_ptr = NullMsg))

\* the extended header is validated with result ec
ExtendedHeaderChecked(c, ec) ==
    IF ec # NoError THEN [c EXCEPT !.ec = ec, !.brk = TRUE]
    ELSE [c EXCEPT !.ec = ec,
                   !.t = EnterApplication(c.t),
                   !.reqs = @ + (IF RequestsBuffer(c.t) THEN 1 ELSE 0)]

\* state HEADER_EXTENDED, after the copy
ExtendedHeaderRead(c) ==
    IF c.t.m_bytes_needed > 0 THEN c
    ELSE ExtendedHeaderChecked(c,
             validate_incoming_extended_header(c.t.m_basic_header,
                                               c.t.m_extended_header))

\* state APPLICATION, after the payload bytes at hand are processed
PayloadRead(c) ==
    IF c.ec # NoError THEN [c EXCEPT !.brk = TRUE]
    ELSE IF c.t.m_bytes_needed > 0 THEN c
    ELSE FrameDone(c)

\* the call after process_payload_bytes returned r for bytes_to_process bytes
PayloadProcessed(c, bytes_to_process, r) ==
    [c EXCEPT !.t = r.this, !.p = @ + r.n, !.ec = r.ec,
              !.buf = Take(c.buf, c.p) \o r.buf \o Drop(c.buf, c.p + bytes_to_process)]

\* state APPLICATION
PayloadStep(c, bytes_to_process) ==
    IF bytes_to_process > 0
    THEN PayloadRead(PayloadProcessed(c, bytes_to_process,
             process_payload_bytes(c.t, Take(Drop(c.buf, c.p), bytes_to_process))))
    ELSE PayloadRead(c)

\* one pass of the loop body
LoopBody(c) ==
    IF c.t.m_state = HEADER_BASIC THEN
        BasicHeaderRead(Copied(c, copy_basic_header_bytes(c.t, Drop(c.buf, c.p))))
    ELSE IF c.t.m_state = HEADER_EXTENDED THEN
        ExtendedHeaderRead(Copied(c, copy_extended_header_bytes(c.t, Drop(c.buf, c.p))))
    ELSE IF c.t.m_state = EXTENSION THEN
        [c EXCEPT !.t.m_state = APPLICATION]
    ELSE IF c.t.m_state = APPLICATION THEN
        PayloadStep(c, Min(c.t.m_bytes_needed, Len(c.buf) - c.p))
    ELSE [c EXCEPT !.ec = "generic", !.p = 0, !.brk = TRUE]

RECURSIVE consume_loop(_)
consume_loop(c) ==
    IF c.brk \/ ~LoopCond(c) THEN c ELSE consume_loop(LoopBody(c))

\* the number of passes of the loop
RECURSIVE LoopPasses(_)
LoopPasses(c) ==
    IF c.brk \/ ~LoopCond(c) THEN 0 ELSE 1 + LoopPasses(LoopBody(c))

\* consume: the processor after the call, the count returned, the error, the chunk
\* as the call leaves it and the number of message buffers requested
consume(this, buf) ==
    consume_loop([t |-> this, buf |-> buf, p |-> 0, ec |-> NoError, reqs |-> 0,
                  brk |-> FALSE])

(***************************************************************************)
(* get_message(): the processor after the call and the message returned.   *)
(***************************************************************************)
\* get_message clearing both slots whatever it returns
ClearBothSlots(this, ret) ==
    [this EXCEPT !.m_control_msg.msg_ptr = NullMsg, !.m_data_msg.msg_ptr = NullMsg]

\* the slot(s) get_message clears
ClearSlots(this, ret) ==
    LET t1 == SetCurrentMsg(this, [CurrentMsg(this) EXCEPT !.msg_ptr = NullMsg])
    IN  IF is_control(ret[1].opcode)
        THEN [t1 EXCEPT !.m_control_msg.msg_ptr = NullMsg]
        ELSE [t1 EXCEPT !.m_data_msg.msg_ptr = NullMsg]

\* get_message leaving the decoder where it is
get_message_keeping_state(this) ==
    IF ~ready(this) THEN [this |-> this, ret |-> NullMsg]
    ELSE [this |-> ClearSlots(this, CurrentMsg(this).msg_ptr),
          ret |-> CurrentMsg(this).msg_ptr]

get_message(this) ==
    IF ~ready(this) THEN [this |-> this, ret |-> NullMsg]
    ELSE LET ret == CurrentMsg(this).msg_ptr
         IN  [this |-> reset_headers(ClearSlots(this, ret)), ret |-> ret]

(***************************************************************************)
(* The encoder.  A message to send is [opcode, payload, fin, compressed],  *)
(* an output message [header, payload, prepared]; both are one-element     *)
(* sequences, the null pointer the empty one.  Each prepare operation      *)
(* returns the processor after the call, the error and the output message. *)
(***************************************************************************)
\* the 7-bit length code of a payload of size bytes
LengthCode(size) ==
    IF size <= payload_size_basic THEN size
    ELSE IF size <= payload_size_extended THEN payload_size_code_16bit
    ELSE payload_size_code_64bit

\* frame::basic_header(op, size, fin, mask, rsv1)
basic_header(op, size, fin, mask, rsv1) ==
    [b0 |-> (IF fin THEN 128 ELSE 0) + (IF rsv1 THEN 64 ELSE 0) + op,
     b1 |-> (IF mask THEN 128 ELSE 0) + LengthCode(size)]

\* frame::extended_header(size) and frame::extended_header(size, key): the
\* bytes in use
extended_header(size, masked, key) ==
    (IF LengthCode(size) = payload_size_code_16bit THEN ToBytes(size, 2)
     ELSE IF LengthCode(size) = payload_size_code_64bit THEN ToBytes(size, 8)
     ELSE <<>>)
    \o (IF masked THEN key ELSE <<>>)

\* frame::prepare_header(h, e)
prepare_header(h, e) == <<h.b0, h.b1>> \o e

\* masked_copy(i, o, key): the bytes written to o
masked_copy(i, key) == [k \in 1..Len(i) |-> Xor8(i[k], key[((k - 1) % 4) + 1])]

\* utf8_validator::validate(s)
validate(s) ==
    /\ validator_decode(UTF8_ACCEPT, s).ok
    /\ validator_complete(validator_decode(UTF8_ACCEPT, s).state)

\* permessage_compress::compress(in, out): the bytes appended to out
RECURSIVE compress(_)
compress(buf) ==
    IF buf = <<>> THEN <<>>
    ELSE IF Len(buf) >= 2 /\ buf[1] = 65 /\ buf[2] = 65
        THEN <<RunToken>> \o compress(Drop(buf, 2))
    ELSE <<Head(buf)>> \o compress(Tail(buf))

\* the output payload after compress(i, o) returned, successfully or not
CompressInto(o, i, compress_ok) == IF compress_ok THEN o \o compress(i) ELSE o

\* the key prepare operations use
GeneratedKey == ZeroKey

\* the payload prepare_data_frame leaves in the output message
DataPayload(o, i, masked, compressed, compress_ok) ==
    IF compressed THEN
        IF masked THEN masked_copy(CompressInto(o, i, compress_ok), GeneratedKey)
        ELSE CompressInto(o, i, compress_ok)
    ELSE IF masked THEN masked_copy(i, GeneratedKey)
    ELSE i

\* the header prepare_data_frame sets
DataHeader(in, masked, compressed) ==
    prepare_header(basic_header(in.opcode, Len(in.payload), in.fin, masked, compressed),
                   extended_header(Len(in.payload), masked, GeneratedKey))

\* the output message of a successful prepare_data_frame
PreparedData(in, out, masked, compressed, compress_ok) ==
    [out EXCEPT !.header = DataHeader(in, masked, compressed),
                !.payload = DataPayload(@, in.payload, masked, compressed, compress_ok),
                !.prepared = TRUE]

\* prepare_data_frame without the check of the text payload
prepare_data_frame_unvalidated(this, in, out, compress_ok) ==
    IF in = NullMsg \/ out = NullMsg
        THEN [this |-> this, ec |-> "invalid_arguments", out |-> out]
    ELSE IF is_control(in[1].opcode)
        THEN [this |-> this, ec |-> "invalid_opcode", out |-> out]
    ELSE [this |-> this, ec |-> NoError,
          out |-> <<PreparedData(in[1], out[1], ~this.m_server,
                                 this.m_permessage_compress /\ in[1].compressed,
                                 compress_ok)>>]

\* prepare_data_frame(in, out); compress_ok tells whether the compression
\* extension, if called, succeeds
prepare_data_frame(this, in, out, compress_ok) ==
    IF in = NullMsg \/ out = NullMsg
        THEN [this |-> this, ec |-> "invalid_arguments", out |-> out]
    ELSE IF is_control(in[1].opcode)
        THEN [this |-> this, ec |-> "invalid_opcode", out |-> out]
    ELSE IF in[1].opcode = TEXT /\ ~validate(in[1].payload)
        THEN [this |-> this, ec |-> "invalid_payload", out |-> out]
    ELSE [this |-> this, ec |-> NoError,
          out |-> <<PreparedData(in[1], out[1], ~this.m_server,
                                 this.m_permessage_compress /\ in[1].compressed,
                                 compress_ok)>>]

\* the output message of a successful prepare_control
PreparedControl(op, payload, out, masked) ==
    [out EXCEPT !.header = prepare_header(
                               basic_header(op, Len(payload), TRUE, masked, FALSE),
                               extended_header(Len(payload), masked, GeneratedKey)),
                !.payload = IF masked THEN masked_copy(payload, GeneratedKey)
                            ELSE payload,
                !.prepared = TRUE]

\* prepare_control without the check of the payload size
prepare_control_unbounded(this, op, payload, out) ==
    IF out = NullMsg
        THEN [this |-> this, ec |-> "invalid_arguments", out |-> out]
    ELSE IF ~is_control(op)
        THEN [this |-> this, ec |-> "invalid_opcode", out |-> out]
    ELSE [this |-> this, ec |-> NoError,
          out |-> <<PreparedControl(op, payload, out[1], ~this.m_server)>>]

\* prepare_control(op, payload, out)
prepare_control(this, op, payload, out) ==
    IF out = NullMsg
        THEN [this |-> this, ec |-> "invalid_arguments", out |-> out]
    ELSE IF ~is_control(op)
        THEN [this |-> this, ec |-> "invalid_opcode", out |-> out]
    ELSE IF Len(payload) > payload_size_basic
        THEN [this |-> this, ec |-> "control_too_big", out |-> out]
    ELSE [this |-> this, ec |-> NoError,
          out |-> <<PreparedControl(op, payload, out[1], ~this.m_server)>>]

\* a prepare_ping that resets the headers of the decoder
prepare_ping_resetting(this, in, out) ==
    [this |-> reset_headers(this), ec |-> NoError, out |-> out]

prepare_ping(this, in, out) == prepare_control(this, PING, in, out)

prepare_pong(this, in, out) == prepare_control(this, PONG, in, out)

\* close::status: the sentinel for a close frame without a code, and the
\* codes that are reserved or invalid
no_status == 1005
close_status_reserved(code) ==
    (code >= 1016 /\ code <= 2999) \/ code = 1004 \/ code = 1014
close_status_invalid(code) ==
    code <= 999 \/ code >= 5000 \/ code = 1005 \/ code = 1006 \/ code = 1015

\* the payload of a close frame
ClosePayload(code, reason) ==
    IF code # no_status THEN ToBytes(code, 2) \o reason ELSE <<>>

\* prepare_close without the check that a reason comes with a code
prepare_close_ignoring_reason(this, code, reason, out) ==
    IF close_status_reserved(code)
        THEN [this |-> this, ec |-> "reserved_close_code", out |-> out]
    ELSE IF close_status_invalid(code) /\ code # no_status
        THEN [this |-> this, ec |-> "invalid_close_code", out |-> out]
    ELSE IF Len(reason) > payload_size_basic - 2
        THEN [this |-> this, ec |-> "control_too_big", out |-> out]
    ELSE prepare_control(this, CLOSE, ClosePayload(code, reason), out)

\* prepare_close(code, reason, out)
prepare_close(this, code, reason, out) ==
    IF close_status_reserved(code)
        THEN [this |-> this, ec |-> "reserved_close_code", out |-> out]
    ELSE IF close_status_invalid(code) /\ code # no_status
        THEN [this |-> this, ec |-> "invalid_close_code", out |-> out]
    ELSE IF code = no_status /\ Len(reason) > 0
        THEN [this |-> this, ec |-> "reason_requires_code", out |-> out]
    ELSE IF Len(reason) > payload_size_basic - 2
        THEN [this |-> this, ec |-> "control_too_big", out |-> out]
    ELSE prepare_control(this, CLOSE, ClosePayload(code, reason), out)

(***************************************************************************)
(* The frames the peer sends.  A frame is a record: fin, rsv (the three    *)
(* reserved bits as a number 0..7), op, mask, key, code (the 7-bit length  *)
(* code), size (the value of the length extension, when the code has one)  *)
(* and payload (the payload bytes before masking).                         *)
(***************************************************************************)
Key1 == <<55, 250, 33, 61>>
Key2 == <<1, 2, 3, 4>>

Frame(fin, rsv, op, mask, key, code, size, payload) ==
    [fin |-> fin, rsv |-> rsv, op |-> op, mask |-> mask, key |-> key,
     code |-> code, size |-> size, payload |-> payload]


\* the bytes of a frame on the wire
WireBytes(f) ==
    LET b0 == (IF f.fin THEN 128 ELSE 0) + f.rsv * 16 + f.op
        b1 == (IF f.mask THEN 128 ELSE 0) + f.code
        ext == IF f.code = payload_size_code_16bit THEN ToBytes(f.size, 2)
               ELSE IF f.code = payload_size_code_64bit THEN ToBytes(f.size, 8)
               ELSE <<>>
    IN  <<b0, b1>> \o ext
        \o (IF f.mask THEN f.key \o word_mask_circ(f.payload, f.key).bytes
            ELSE f.payload)

\* the masking a peer of the given role applies: a client masks, a server does not;
\* continuation frames carry a key of their own
Masking(server, op) ==
    IF ~server THEN [mask |-> FALSE, key |-> ZeroKey]
    ELSE [mask |-> TRUE, key |-> IF op = CONTINUATION THEN Key2 ELSE Key1]

\* a frame from the peer of a processor of the given role
PeerFrame(server, fin, rsv, op, code, size, payload) ==
    Frame(fin, rsv, op, Masking(server, op).mask, Masking(server, op).key,
          code, size, payload)

\* the same frame with the masking of the wrong direction
WrongMask(f) ==
    [f EXCEPT !.mask = ~f.mask, !.key = IF f.mask THEN ZeroKey ELSE Key1]

\* payloads: every kind for the unmasked frames a client reads, fewer for the
\* masked frames a server reads
TextPayloads(server) ==
    IF server THEN {<<195>>, <<169>>, <<195, 169>>}
    ELSE {<<>>, <<65>>, <<195>>, <<169>>, <<195, 169>>}
BinaryPayloads(server) == IF server THEN {<<169>>} ELSE {<<>>, <<169>>}
CompressedPayloads(server) ==
    IF server THEN {<<195, 169>>} ELSE {<<195, 169>>, <<RunToken>>}
PingPayloads(server) == IF server THEN {<<65>>} ELSE {<<>>, <<65>>}

\* data frames, whole or fragments, compressed or not
DataFrames(server) ==
    {PeerFrame(server, fin, 0, op, Len(pl), 0, pl) :
        fin \in BOOLEAN, op \in {CONTINUATION, TEXT}, pl \in TextPayloads(server)}
    \cup {PeerFrame(server, TRUE, 0, BINARY, Len(pl), 0, pl) :
        pl \in BinaryPayloads(server)}
    \cup {PeerFrame(server, fin, 4, op, Len(pl), 0, pl) :
        fin \in BOOLEAN, op \in {CONTINUATION, TEXT}, pl \in CompressedPayloads(server)}

ControlFrames(server) ==
    {PeerFrame(server, TRUE, 0, PING, Len(pl), 0, pl) : pl \in PingPayloads(server)}
    \cup {PeerFrame(server, TRUE, 0, op, 0, 0, <<>>) :
            op \in IF server THEN {CLOSE} ELSE {CLOSE, PONG}}

\* a few frames the processor must reject: at the basic header (the masking of the
\* wrong direction, a reserved bit) and at the extended header (a length not
\* minimally encoded)
RejectedFrames(server) ==
    {WrongMask(PeerFrame(server, TRUE, 0, TEXT, 1, 0, <<65>>)),
     PeerFrame(server, TRUE, 2, BINARY, 0, 0, <<>>),
     PeerFrame(server, TRUE, 0, BINARY, 126, 1, <<65>>)}

Frames(server) ==
    DataFrames(server) \cup ControlFrames(server) \cup RejectedFrames(server)

\* length extensions, minimal and not
ExtendedForms ==
    {[code |-> 126, size |-> 125], [code |-> 126, size |-> 126],
     [code |-> 127, size |-> 65535], [code |-> 127, size |-> 65536]}

HeaderKey(mask) == IF mask THEN Key1 ELSE ZeroKey

\* the shortest length of each extension
LongForms == {[code |-> 126, size |-> 126], [code |-> 127, size |-> 65536]}

\* basic headers of every kind without payload, some frames with one byte of
\* payload, and frames with a length extension
HeaderFrames ==
    {Frame(fin, rsv, op, mask, HeaderKey(mask), 0, 0, <<>>) :
        fin \in BOOLEAN, rsv \in {0, 1, 2, 4},
        op \in {CONTINUATION, TEXT, BINARY, 3, CLOSE, PING, PONG, 11},
        mask \in BOOLEAN}
    \cup {Frame(TRUE, 0, op, mask, HeaderKey(mask), 1, 0, <<65>>) :
        op \in {TEXT, PING}, mask \in BOOLEAN}
    \cup {Frame(TRUE, 0, op, mask, HeaderKey(mask), ls.code, ls.size, <<>>) :
        op \in {CONTINUATION, BINARY, PING}, mask \in BOOLEAN, ls \in ExtendedForms}
    \cup {Frame(fin, 0, op, mask, HeaderKey(mask), ls.code, ls.size, <<>>) :
        fin \in BOOLEAN, op \in {CLOSE, PING, PONG}, mask \in BOOLEAN,
        ls \in LongForms}

(***************************************************************************)
(* The state.                                                              *)
(***************************************************************************)
VARIABLES
    this,    \* the processor
    wire,    \* the bytes received and not yet consumed
    last,    \* the last operation called
    ret,     \* the count the last consume returned
    ec,      \* the error code the last consume set
    reqs,    \* the message buffers the last consume requested
    out,     \* the message the last get_message returned
    cuts,    \* history: the frames of wire, each with its bytes left
    sent,    \* history: the data message the consumed fragments add up to
    snap,    \* history: m_data_msg when the last data fragment ended
    ctl,     \* history: a control message was retrieved inside the open data message
    start,   \* history: the processor when the current message began
    fed,     \* history: the bytes given to consume since then
    total,   \* history: the sum of the counts returned since then
    failed,  \* history: some consume call has reported an error
    nframes, \* history: the frames received since the last message was retrieved
    call     \* the arguments and the output of the last prepare call

vars == <<this, wire, last, ret, ec, reqs, out, cuts, sent, snap, ctl,
          start, fed, total, failed, nframes, call>>

\* no prepare call has been made since the last decode call
NoCall ==
    [inmsg |-> NullMsg, code |-> 0, payload |-> <<>>, before |-> NullMsg,
     after |-> NullMsg, compress_ok |-> TRUE]

Init ==
    /\ this \in {Construct(server) : server \in BOOLEAN}
    /\ wire = <<>>
    /\ last = "construct"
    /\ ret = 0
    /\ ec = NoError
    /\ reqs = 0
    /\ out = NullMsg
    /\ cuts = <<>>
    /\ sent = NullMsg
    /\ snap = this.m_data_msg
    /\ ctl = FALSE
    /\ start = this
    /\ fed = <<>>
    /\ total = 0
    /\ failed = FALSE
    /\ nframes = 0
    /\ call = NoCall

(***************************************************************************)
(* History bookkeeping.                                                    *)
(***************************************************************************)
\* cuts after n bytes are consumed: the frames left, and those completed in order
RECURSIVE Advance(_, _, _)
Advance(cs, n, done) ==
    IF cs = <<>> \/ n < cs[1].left
    THEN [cuts |-> IF cs = <<>> \/ n = 0 THEN cs
                   ELSE <<[cs[1] EXCEPT !.left = @ - n]>> \o Tail(cs),
          done |-> done]
    ELSE Advance(Tail(cs), n - cs[1].left, Append(done, cs[1]))

\* the payload bytes a frame adds to its message
Delivered(t, f) ==
    IF t.m_permessage_compress /\ f.rsv \div 4 = 1 THEN decompress(f.payload)
    ELSE f.payload

\* the data message after the completed frames fs are added, in order
RECURSIVE AddFragments(_, _, _)
AddFragments(t, msg, fs) ==
    IF fs = <<>> THEN msg
    ELSE LET f == fs[1].f
             m1 == IF is_control(f.op) THEN msg
                   ELSE IF msg = NullMsg
                        THEN <<[opcode |-> f.op, payload |-> Delivered(t, f)]>>
                   ELSE <<[msg[1] EXCEPT !.payload = @ \o Delivered(t, f)]>>
         IN  AddFragments(t, m1, Tail(fs))

\* the bytes of the leading data frames among the completed frames fs
RECURSIVE DataBytes(_)
DataBytes(fs) ==
    IF fs = <<>> \/ is_control(fs[1].f.op) THEN 0
    ELSE fs[1].left + DataBytes(Tail(fs))

(***************************************************************************)
(* The operations.                                                         *)
(***************************************************************************)
PayloadLen(md) == IF md.msg_ptr = NullMsg THEN 0 ELSE Len(md.msg_ptr[1].payload)

\* the message buffers stay within the bound of the model
WithinBound(t) ==
    PayloadLen(t.m_data_msg) <= MaxMsgLen /\ PayloadLen(t.m_control_msg) <= MaxMsgLen

\* negotiate_extensions(req): the request offers permessage-compress and the
\* extension accepts the offer; it happens before any frame is read
NegotiateExtensions ==
    /\ last = "construct"
    /\ this' = [this EXCEPT !.m_permessage_compress = TRUE]
    /\ last' = "negotiate_extensions"
    /\ start' = this'
    /\ call' = NoCall
    /\ UNCHANGED <<wire, ret, ec, reqs, out, cuts, sent, snap, ctl, fed, total, failed,
                   nframes>>

\* the frames of which two may be unread at a time
FollowFrames(server) ==
    {PeerFrame(server, TRUE, 0, PING, 0, 0, <<>>),
     PeerFrame(server, TRUE, 0, CONTINUATION, 1, 0, <<65>>),
     PeerFrame(server, FALSE, 0, TEXT, 1, 0, <<195>>)}

\* the transport receives the bytes of one more frame: when it holds nothing, or
\* behind one frame of which nothing is consumed yet; the caller has dropped the
\* results of its last call by then
Arrive(f) ==
    /\ \/ cuts = <<>>
       \/ /\ Len(cuts) = 1
          /\ cuts[1].left = Len(WireBytes(cuts[1].f))
          /\ cuts[1].f \in FollowFrames(this.m_server)
          /\ f \in FollowFrames(this.m_server)
    /\ wire' = wire \o WireBytes(f)
    /\ cuts' = Append(cuts, [f |-> f, left |-> Len(WireBytes(f))])
    /\ last' = "receive"
    /\ ret' = 0
    /\ ec' = NoError
    /\ reqs' = 0
    /\ out' = NullMsg
    /\ call' = NoCall
    /\ UNCHANGED <<this, sent, snap, ctl, failed>>

Receive(f) ==
    /\ Arrive(f)
    /\ UNCHANGED <<start, fed, total, nframes>>

\* what the history records of a call that consumed the frames adv.done
Recorded(adv, k) ==
    /\ cuts' = adv.cuts
    /\ sent' = AddFragments(this, sent, adv.done)
    /\ snap' = IF k > 0 THEN consume(this, Take(wire, k)).t.m_data_msg ELSE snap

\* consume has returned r for the first n bytes received
Returned(n, r) ==
    /\ WithinBound(r.t)
    /\ this' = r.t
    /\ wire' = Drop(r.buf, r.p) \o Drop(wire, n)
    /\ last' = "consume"
    /\ ret' = r.p
    /\ ec' = r.ec
    /\ reqs' = r.reqs
    /\ out' = NullMsg
    /\ failed' = (failed \/ r.ec # NoError)
    /\ call' = NoCall
    /\ UNCHANGED ctl

\* the completed frames of a call that consumed p bytes
Completed(p) == Advance(cuts, p, <<>>)

\* consume is called with the first n bytes received; the caller keeps what the
\* call did not consume
Call(n) ==
    /\ n <= Len(wire)
    /\ Returned(n, consume(this, Take(wire, n)))
    /\ Recorded(Completed(ret'), DataBytes(Completed(ret').done))

Consume(n) ==
    /\ Call(n)
    /\ UNCHANGED <<start, fed, total, nframes>>

\* get_message has returned r.ret
Retrieved(r, got, control) ==
    /\ this' = r.this
    /\ last' = "get_message"
    /\ out' = r.ret
    /\ ret' = 0
    /\ ec' = NoError
    /\ reqs' = 0
    /\ sent' = IF got /\ ~control THEN NullMsg ELSE sent
    /\ snap' = IF got /\ ~control THEN r.this.m_data_msg ELSE snap
    /\ ctl' = IF control THEN this.m_data_msg.msg_ptr # NullMsg
              ELSE IF got THEN FALSE ELSE ctl
    /\ call' = NoCall
    /\ UNCHANGED <<wire, cuts, failed>>

\* whether get_message returned a control message
IsControlMsg(m) == m # NullMsg /\ is_control(m[1].opcode)

\* get_message is called
GetMessage ==
    /\ Retrieved(get_message(this), get_message(this).ret # NullMsg,
                 IsControlMsg(get_message(this).ret))
    /\ UNCHANGED <<start, fed, total, nframes>>

Next ==
    \/ NegotiateExtensions
    \/ \E f \in Frames(this.m_server) : Receive(f)
    \/ \E n \in 0..MaxChunk : Consume(n)
    \/ GetMessage

Spec == Init /\ [][Next]_vars

\* a frame with a header of any kind arrives; the frames with a length
\* extension come without their payload and nothing follows them, and the
\* endpoint stops reading from the transport once a call has reported an error
ReceiveHeader(f) ==
    /\ ~failed
    /\ this.m_state \in {HEADER_BASIC, READY}
    /\ Receive(f)

\* the same processor, fed headers of every kind
NextHeader ==
    \/ NegotiateExtensions
    \/ \E f \in HeaderFrames : ReceiveHeader(f)
    \/ \E n \in 0..MaxChunk : Consume(n)
    \/ GetMessage

SpecHeader == Init /\ [][NextHeader]_vars

\* every basic header: each FIN, reserved bits, opcode and MASK bit without
\* payload, and the control opcodes also with the length code 126
BasicHeaders ==
    {Frame(fin, rsv, op, mask, HeaderKey(mask), 0, 0, <<>>) :
        fin \in BOOLEAN, rsv \in 0..7, op \in 0..15, mask \in BOOLEAN}
    \cup {Frame(fin, rsv, op, mask, HeaderKey(mask), payload_size_code_16bit,
                payload_size_code_16bit, <<>>) :
        fin \in BOOLEAN, rsv \in 0..7, op \in 8..15, mask \in BOOLEAN}

\* the transport, holding nothing, receives the header of a frame: the basic
\* header and the masking key if the frame has one
ReceiveBasicHeader(f) ==
    /\ ~failed
    /\ this.m_state \in {HEADER_BASIC, READY}
    /\ wire = <<>>
    /\ wire' = Take(WireBytes(f), get_header_len([b0 |-> 0, b1 |-> WireBytes(f)[2]]))
    /\ cuts' = <<[f |-> f, left |-> Len(wire')]>>
    /\ last' = "receive"
    /\ ret' = 0
    /\ ec' = NoError
    /\ reqs' = 0
    /\ out' = NullMsg
    /\ call' = NoCall
    /\ UNCHANGED <<this, sent, snap, ctl, failed, start, fed, total, nframes>>

\* the same processor, fed basic headers of every kind
NextBasicHeader ==
    \/ NegotiateExtensions
    \/ \E f \in BasicHeaders : ReceiveBasicHeader(f)
    \/ \E n \in 0..MaxChunk : Consume(n)
    \/ GetMessage

SpecBasicHeader == Init /\ [][NextBasicHeader]_vars

(***************************************************************************)
(* The same processor with the calls of each message on record: start, fed *)
(* and total tell what one consume call on all the bytes would have done.  *)
(***************************************************************************)
\* the frames of well-formed messages
ValidFrames(server) == DataFrames(server) \cup ControlFrames(server)

\* one more frame of the message arrives
Send(f) ==
    /\ nframes < MaxFrames
    /\ ~failed
    /\ Arrive(f)
    /\ nframes' = nframes + 1
    /\ UNCHANGED <<start, fed, total>>

\* consume is called with the first n bytes received, and the call is recorded:
\* the bytes it took, or all it was given when it failed
Feed(n) ==
    /\ Call(n)
    /\ fed' = IF failed \/ ready(this) THEN fed
              ELSE IF ec' # NoError THEN fed \o Take(wire, n)
              ELSE fed \o Take(wire, ret')
    /\ total' = IF failed THEN total ELSE total + ret'
    /\ UNCHANGED <<start, nframes>>

\* get_message is called; a message retrieved starts a new record
Collect ==
    /\ Retrieved(get_message(this), get_message(this).ret # NullMsg,
                 IsControlMsg(get_message(this).ret))
    /\ IF ready(this)
       THEN start' = this' /\ fed' = <<>> /\ total' = 0 /\ nframes' = 0
       ELSE UNCHANGED <<start, fed, total, nframes>>

NextChunk ==
    \/ NegotiateExtensions
    \/ \E f \in ValidFrames(this.m_server) : Send(f)
    \/ \E n \in 0..MaxChunk : Feed(n)
    \/ Collect

SpecChunk == Init /\ [][NextChunk]_vars

(***************************************************************************)
(* The same processor with the prepare operations called between the       *)
(* decode calls.                                                           *)
(***************************************************************************)
\* n bytes b
Rep(b, n) == [k \in 1..n |-> b]

\* the output messages handed to the prepare operations: a fresh one and one
\* that holds an earlier frame's bytes
FreshOut == <<[header |-> <<>>, payload |-> <<>>, prepared |-> FALSE]>>
UsedOut == <<[header |-> <<138, 1>>, payload |-> <<7>>, prepared |-> FALSE]>>

\* a message to send
Message(op, payload, fin, compressed) ==
    <<[opcode |-> op, payload |-> payload, fin |-> fin, compressed |-> compressed]>>

\* the calls of prepare_data_frame: a missing argument, opcodes that are not
\* data opcodes, text that is not UTF-8, fragments, and whole messages that are
\* empty, short or in need of the 16 bit length, to be compressed or not, with the
\* compressor working or failing
DataCalls ==
    {[in |-> NullMsg, o |-> FreshOut, ok |-> TRUE],
     [in |-> Message(TEXT, <<65>>, TRUE, FALSE), o |-> NullMsg, ok |-> TRUE],
     [in |-> Message(BINARY, Rep(66, 126), TRUE, FALSE), o |-> FreshOut, ok |-> TRUE]}
    \cup {[in |-> Message(op, <<65>>, fin, FALSE), o |-> UsedOut, ok |-> TRUE] :
            op \in {PING, CLOSE}, fin \in BOOLEAN}
    \cup {[in |-> Message(op, <<65>>, FALSE, FALSE), o |-> FreshOut, ok |-> TRUE] :
            op \in {TEXT, CONTINUATION}}
    \cup {[in |-> Message(TEXT, <<195>>, TRUE, cm), o |-> UsedOut, ok |-> TRUE] :
            cm \in BOOLEAN}
    \cup {[in |-> Message(TEXT, pl, TRUE, FALSE), o |-> o, ok |-> TRUE] :
            pl \in {<<>>, <<195, 169>>}, o \in {FreshOut, UsedOut}}
    \cup {[in |-> Message(op, <<65, 65>>, TRUE, cm), o |-> FreshOut, ok |-> ok] :
            op \in {TEXT, BINARY}, cm \in BOOLEAN, ok \in BOOLEAN}
    \cup {[in |-> Message(BINARY, <<195>>, TRUE, TRUE), o |-> UsedOut, ok |-> ok] :
            ok \in BOOLEAN}

\* the calls of prepare_ping and prepare_pong: payloads up to and beyond the
\* greatest a control frame holds
ControlCalls ==
    {[payload |-> pl, o |-> FreshOut] : pl \in {<<>>, Rep(65, 125), Rep(65, 126)}}
    \cup {[payload |-> pl, o |-> o] : pl \in {<<65>>, Rep(65, 126)}, o \in {NullMsg, UsedOut}}

\* the calls of prepare_close: codes of every class, reasons up to and beyond
\* the greatest a close frame holds
CloseCalls ==
    {[code |-> code, reason |-> <<>>, o |-> FreshOut] :
        code \in {999, 1000, 1004, 1005, 1006, 1015, 1016, 2999, 3000, 4999, 5000}}
    \cup {[code |-> code, reason |-> <<65>>, o |-> o] :
        code \in {1000, 1004, 1005, 1006}, o \in {NullMsg, UsedOut}}
    \cup {[code |-> code, reason |-> Rep(65, n), o |-> FreshOut] :
        code \in {1000, 1005, 1006}, n \in {123, 124}}
    \cup {[code |-> 1005, reason |-> <<>>, o |-> NullMsg]}

\* a prepare operation fn has returned r
Prepared(fn, r, args) ==
    /\ this' = r.this
    /\ last' = fn
    /\ ec' = r.ec
    /\ call' = [args EXCEPT !.after = r.out]
    /\ ret' = 0
    /\ reqs' = 0
    /\ out' = NullMsg
    /\ UNCHANGED <<wire, cuts, sent, snap, ctl, start, fed, total, failed, nframes>>

PrepareDataFrame(in, o, compress_ok) ==
    Prepared("prepare_data_frame", prepare_data_frame(this, in, o, compress_ok),
             [NoCall EXCEPT !.inmsg = in, !.before = o, !.compress_ok = compress_ok])

PreparePing(payload, o) ==
    Prepared("prepare_ping", prepare_ping(this, payload, o),
             [NoCall EXCEPT !.payload = payload, !.before = o])

PreparePong(payload, o) ==
    Prepared("prepare_pong", prepare_pong(this, payload, o),
             [NoCall EXCEPT !.payload = payload, !.before = o])

PrepareClose(code, reason, o) ==
    Prepared("prepare_close", prepare_close(this, code, reason, o),
             [NoCall EXCEPT !.code = code, !.payload = reason, !.before = o])

\* the transport receives one frame at a time
ReceiveNext(f) ==
    /\ cuts = <<>>
    /\ Receive(f)

NextEncode ==
    \/ NegotiateExtensions
    \/ \E f \in FollowFrames(this.m_server) : ReceiveNext(f)
    \/ \E n \in 0..MaxChunk : Consume(n)
    \/ GetMessage
    \/ \E c \in DataCalls : PrepareDataFrame(c.in, c.o, c.ok)
    \/ \E c \in ControlCalls : PreparePing(c.payload, c.o)
    \/ \E c \in ControlCalls : PreparePong(c.payload, c.o)
    \/ \E c \in CloseCalls : PrepareClose(c.code, c.reason, c.o)

SpecEncode == Init /\ [][NextEncode]_vars

(***************************************************************************)
(* Properties.                                                             *)
(***************************************************************************)
\* wire is at the first byte of a frame, or empty
AtFrameBoundary(cs) == cs = <<>> \/ cs[1].left = Len(WireBytes(cs[1].f))

\* a single consume call returning r did what the calls on record did
SameAsOneCall(r) ==
    r.ec = NoError => (~failed /\ r.t = this /\ r.p = total)

\* C1: feeding a valid byte sequence in sub-chunks leaves the decoder in the
\* same state, with the same message and the same total of bytes consumed, as
\* feeding it in a single consume call.
C1_ChunkingInvariance == SameAsOneCall(consume(start, fed))

\* C2: after any consume call that reported an error the state machine is
\* halted in FATAL_ERROR: get_error() returns true.
C2_ErrorHaltsInFatalError ==
    (last = "consume" /\ ec # NoError) => get_error(this)

\* C3: once some consume call has reported an error, every later consume call
\* consumes zero bytes and ready() is never true again.
C3_ErrorIsTerminal ==
    [][failed => /\ ~ready(this')
                 /\ (last' = "consume" => ret' = 0)]_vars

\* a consume call was made after a header was rejected, with bytes at hand: the
\* call that rejects a header takes the byte that completes it, this one took none
C3_Witness ==
    /\ failed
    /\ last = "consume"
    /\ ret = 0
    /\ ec # NoError
    /\ this.m_state = HEADER_BASIC
    /\ wire # <<>>

\* C4: the consume call that completes a message stops at the last byte of
\* its final frame, and while ready() is true a consume call consumes zero
\* bytes, reports no error and leaves the processor as it is.
C4_StopsAtMessageEnd ==
    [][/\ (last' = "consume" /\ ready(this') /\ ~ready(this))
            => (ret' > 0 /\ AtFrameBoundary(cuts'))
       /\ (last' = "consume" /\ ready(this))
            => (ret' = 0 /\ ec' = NoError /\ reqs' = 0 /\ this' = this
                /\ wire' = wire)]_vars

\* consume was called while a message was ready and another frame was at hand
C4_Witness ==
    /\ ready(this)
    /\ last = "consume"
    /\ ret = 0
    /\ wire # <<>>

\* the slot that held the message get_message returned
HeldSlot(t) == IF is_control(CurrentMsg(t).msg_ptr[1].opcode)
               THEN "control" ELSE "data"

\* C5: get_message returns null and changes nothing when ready() is false;
\* when ready() is true it returns the completed message, clears the slot
\* that held it and re-arms the decoder to HEADER_BASIC with 2 bytes needed,
\* so that ready() is false and a repeated get_message returns null.
C5_HandOffOnce ==
    [][last' = "get_message" =>
         /\ ~ready(this) => (out' = NullMsg /\ this' = this)
         /\ ready(this) =>
              /\ out' # NullMsg
              /\ out' = CurrentMsg(this).msg_ptr
              /\ CurrentMsg(this').msg_ptr = NullMsg
              /\ HeldSlot(this) = "control" => this'.m_control_msg.msg_ptr = NullMsg
              /\ HeldSlot(this) = "data" => this'.m_data_msg.msg_ptr = NullMsg
              /\ this'.m_state = HEADER_BASIC
              /\ this'.m_bytes_needed = BASIC_HEADER_LENGTH
              /\ ~ready(this')
              /\ get_message(this').ret = NullMsg
         /\ last = "get_message" => out' = NullMsg]_vars

\* get_message has handed a message over
C5_Witness ==
    /\ last = "get_message"
    /\ out # NullMsg
    /\ this.m_state = HEADER_BASIC

\* C7: a control frame decoded and retrieved between two fragments of an open
\* data message leaves the data message's buffer, opcode, key and validator
\* state as they were, the data message stays open, and it completes with the
\* in-order concatenation of its own fragments' payloads.
C7_ControlLeavesDataMessage ==
    [][/\ (~failed' /\ ready(this') /\ this'.m_current_msg = "control")
            => this'.m_data_msg = snap'
       /\ (last' = "get_message" /\ IsControlMsg(out'))
            => this'.m_data_msg = this.m_data_msg
       /\ (~failed' /\ ready(this') /\ this'.m_current_msg = "data")
            => this'.m_data_msg.msg_ptr = sent']_vars

\* a data message of two fragments is complete, a control message having been
\* retrieved while it was open
C7_Witness ==
    /\ ctl
    /\ ~failed
    /\ ready(this)
    /\ this.m_current_msg = "data"
    /\ Len(this.m_data_msg.msg_ptr[1].payload) = 2

\* C8: a TEXT message split across frames reaches READY only if the
\* concatenated payload is valid, complete UTF-8 (here without compression).
C8_ReadyTextIsValidUtf8 ==
    (/\ ~this.m_permessage_compress
     /\ ready(this)
     /\ this.m_current_msg = "data"
     /\ this.m_data_msg.msg_ptr[1].opcode = TEXT)
        => LET v == validator_decode(UTF8_ACCEPT, this.m_data_msg.msg_ptr[1].payload)
           IN  v.ok /\ validator_complete(v.state)

\* the frame at the head of wire, of which the processor holds the first bytes
HeadFrame == cuts[1].f

\* the call that is returning started inside the basic header of HeadFrame and
\* took the byte that completes it
CompletesBasicHeader ==
    /\ ~failed
    /\ cuts # <<>>
    /\ this.m_state = HEADER_BASIC
    /\ this.m_bytes_needed > 0
    /\ last' = "consume"
    /\ ret' >= this.m_bytes_needed

\* a data message is open
DataOpen(t) == t.m_data_msg.msg_ptr # NullMsg

\* a frame out of sequence for processor t
OutOfSequence(t, op) ==
    \/ op = CONTINUATION /\ ~DataOpen(t)
    \/ op \in {TEXT, BINARY} /\ DataOpen(t)

\* the reserved bits of a data frame are acceptable to processor t
RsvAccepted(t, f) == f.rsv = 0 \/ (f.rsv = 4 /\ t.m_permessage_compress)

MaskingError(t) == IF t.m_server THEN "masking_required" ELSE "masking_forbidden"

\* C9: a frame whose MASK bit does not fit the role of the decoder is rejected
\* when its basic header is complete: only the bytes of the basic header are
\* consumed, nothing is written to the extended header, no message buffer is
\* requested or touched, and no header masked the wrong way is ever accepted.
C9_MaskingDirection ==
    [][/\ (CompletesBasicHeader /\ HeadFrame.mask # this.m_server)
            => /\ ec' # NoError
               /\ validate_incoming_basic_header(this', this'.m_basic_header,
                      ~this.m_server, ~DataOpen(this)) = NoError
                    => ec' = MaskingError(this)
               /\ this'.m_state = HEADER_BASIC
               /\ ret' = this.m_bytes_needed
               /\ reqs' = 0
               /\ this'.m_extended_header = this.m_extended_header
               /\ this'.m_data_msg = this.m_data_msg
               /\ this'.m_control_msg = this.m_control_msg
       /\ this'.m_state \in {HEADER_EXTENDED, APPLICATION, READY}
            => get_masked(this'.m_basic_header) = this'.m_server]_vars

\* a frame with payload was rejected for its masking, its payload still unread
C9_Witness ==
    /\ last = "consume"
    /\ ec = MaskingError(this)
    /\ this.m_state = HEADER_BASIC
    /\ this.m_bytes_needed = 0
    /\ cuts # <<>>
    /\ cuts[1].f.payload # <<>>
    /\ cuts[1].left = Len(cuts[1].f.payload) + (IF cuts[1].f.mask THEN 4 ELSE 0)

\* the length of frame f is not encoded in the shortest form
NonMinimalFrame(f) ==
    \/ f.code = payload_size_code_16bit /\ f.size <= payload_size_basic
    \/ f.code = payload_size_code_64bit /\ f.size <= payload_size_extended

\* the length the header bytes b1 and e encode
EncodedLength(b1, e) ==
    IF b1 % 128 = payload_size_code_16bit THEN e[1] * 256 + e[2]
    ELSE IF b1 % 128 = payload_size_code_64bit THEN BigEndian(Take(e, 8))
    ELSE b1 % 128

\* C10: a frame whose length code is 126 with a value <= 125, or 127 with a
\* value <= 65535, is rejected with non_minimal_encoding when its extended
\* header is complete; the decoder does not enter APPLICATION for it and no
\* message buffer is requested or touched.
C10_MinimalEncoding ==
    [][/\ (/\ ~failed
           /\ cuts # <<>>
           /\ NonMinimalFrame(HeadFrame)
           /\ last' = "consume"
           /\ ret' > 0
           /\ ret' = cuts[1].left)
            => /\ ec' = "non_minimal_encoding"
               /\ this'.m_state = HEADER_EXTENDED
               /\ reqs' = 0
               /\ this'.m_data_msg = this.m_data_msg
               /\ this'.m_control_msg = this.m_control_msg
       /\ this'.m_state \in {APPLICATION, READY}
            => LET n == EncodedLength(this'.m_basic_header.b1, this'.m_extended_header)
                   code == this'.m_basic_header.b1 % 128
               IN  /\ code = payload_size_code_16bit => n > payload_size_basic
                   /\ code = payload_size_code_64bit => n > payload_size_extended]_vars

\* a frame of a data message in progress was rejected for its length encoding
C10_Witness ==
    /\ last = "consume"
    /\ ec = "non_minimal_encoding"
    /\ this.m_state = HEADER_EXTENDED
    /\ this.m_bytes_needed = 0
    /\ DataOpen(this)
    /\ get_basic_size(this.m_basic_header) = payload_size_code_64bit

C18_ZeroOnError ==
    (last = "consume" /\ ec # NoError) => ret = 0

\* the call of consume on a chunk of len bytes, as it starts
Entry(t, buf) ==
    [t |-> t, buf |-> buf, p |-> 0, ec |-> NoError, reqs |-> 0, brk |-> FALSE]

\* a call on len bytes returning r yields at a defined point
YieldsAtDefinedPoint(len, r) ==
    /\ r.p \in 0..len
    /\ (r.p = len \/ ready(r.t) \/ r.ec # NoError)

\* C19: every consume call terminates (its loop makes at most three passes
\* per byte and three more), returns a count between 0 and len, and at return
\* all len bytes are consumed, or ready() is true, or an error is reported.
C19_YieldsAtDefinedPoints ==
    \A n \in 0..MaxChunk :
        n <= Len(wire) =>
            /\ LoopPasses(Entry(this, Take(wire, n))) <= 3 * n + 3
            /\ YieldsAtDefinedPoint(n, consume(this, Take(wire, n)))

\* a call stopped before the end of its chunk because a message was ready
C19_Witness ==
    /\ last = "consume"
    /\ ready(this)
    /\ ret > 0
    /\ ec = NoError
    /\ wire # <<>>


(***************************************************************************)
(* The prepare operations.                                                 *)
(***************************************************************************)
\* the last call was a prepare operation that returned success
PreparedOk(fn) == last = fn /\ ec = NoError

\* the last call was a prepare operation that left its output as it was
OutputUntouched == call.after = call.before

\* the last call marked its output prepared
MarkedPrepared == call.after # NullMsg /\ call.after[1].prepared

\* the fields of the header the last call wrote
OutFin == call.after[1].header[1] \div 128 = 1
OutOpcode == call.after[1].header[1] % 16
OutMasked == call.after[1].header[2] \div 128 = 1
OutLength == EncodedLength(call.after[1].header[2], Drop(call.after[1].header, 2))

\* C14: prepare_data_frame answers a null input or output with
\* invalid_arguments, a control opcode with invalid_opcode and a TEXT payload
\* that is not UTF-8 with invalid_payload; a rejected call leaves the output
\* message as it was, not prepared, and the output is prepared only when the
\* call returns success.
C14_DataFrameRejections ==
    last = "prepare_data_frame" =>
        /\ (call.inmsg = NullMsg \/ call.before = NullMsg) => ec = "invalid_arguments"
        /\ (/\ call.inmsg # NullMsg
            /\ call.before # NullMsg
            /\ is_control(call.inmsg[1].opcode)) => ec = "invalid_opcode"
        /\ (/\ call.inmsg # NullMsg
            /\ call.before # NullMsg
            /\ call.inmsg[1].opcode = TEXT
            /\ ~validate(call.inmsg[1].payload)) => ec = "invalid_payload"
        /\ ec # NoError => OutputUntouched /\ ~MarkedPrepared
        /\ MarkedPrepared => ec = NoError

C14_Witness ==
    /\ last = "prepare_data_frame"
    /\ ec = "invalid_payload"
    /\ call.before = UsedOut
    /\ call.after = UsedOut

\* the checks prepare_close makes of its code and reason pass
CloseAccepted(code, reason) ==
    /\ ~close_status_reserved(code)
    /\ ~close_status_invalid(code) \/ code = no_status
    /\ code = no_status => reason = <<>>
    /\ Len(reason) <= 123

\* C13: prepare_close answers a reserved code with reserved_close_code, an
\* invalid code other than no-status with invalid_close_code, no-status with a
\* reason with reason_requires_code and, for a code it accepts, a reason longer
\* than 123 bytes with control_too_big, each time leaving the output as it was;
\* otherwise the payload is empty for no-status and else the code in two bytes,
\* high byte first, followed by the reason.
C13_CloseValidation ==
    last = "prepare_close" =>
        /\ close_status_reserved(call.code) => ec = "reserved_close_code"
        /\ (/\ ~close_status_reserved(call.code)
            /\ close_status_invalid(call.code)
            /\ call.code # no_status) => ec = "invalid_close_code"
        /\ (call.code = no_status /\ call.payload # <<>>) => ec = "reason_requires_code"
        /\ (/\ ~close_status_reserved(call.code)
            /\ ~close_status_invalid(call.code)
            /\ Len(call.payload) > 123) => ec = "control_too_big"
        /\ ec \in {"reserved_close_code", "invalid_close_code", "reason_requires_code",
                   "control_too_big"} => OutputUntouched /\ ~MarkedPrepared
        /\ ec = NoError =>
            /\ MarkedPrepared
            /\ call.after[1].payload =
                  IF call.code = no_status THEN <<>>
                  ELSE <<call.code \div 256, call.code % 256>> \o call.payload

C13_Witness ==
    /\ PreparedOk("prepare_close")
    /\ call.code = 1000
    /\ Len(call.payload) = 123
    /\ Len(call.after[1].payload) = 125

\* the opcode a control operation asks the builder for
RequestedOpcode ==
    IF last = "prepare_ping" THEN PING ELSE IF last = "prepare_pong" THEN PONG ELSE CLOSE

DecodeState(t) ==
    <<t.m_state, t.m_bytes_needed, t.m_cursor, t.m_basic_header, t.m_extended_header,
      t.m_data_msg, t.m_control_msg, t.m_current_msg>>

\* C16: a prepare call, successful or not, leaves the state, the bytes-needed
\* counter, the cursor, both headers and both metadata slots of the decoder as
\* they were, so that consume and get_message give afterwards what they would
\* have given before it.
C16_EncodeLeavesDecodeState ==
    [][last' \in {"prepare_data_frame", "prepare_ping", "prepare_pong", "prepare_close"}
        => /\ DecodeState(this') = DecodeState(this)
           /\ get_message(this') = get_message(this)
           /\ \A n \in 0..MaxChunk :
                n <= Len(wire) =>
                    consume(this', Take(wire, n)) = consume(this, Take(wire, n))]_vars

C16_Witness ==
    /\ last = "prepare_close"
    /\ ec = "invalid_close_code"
    /\ this.m_state = APPLICATION
    /\ this.m_data_msg.msg_ptr # NullMsg
    /\ wire # <<>>

\* the last call prepared a whole text or binary message
PreparedMessage ==
    /\ PreparedOk("prepare_data_frame")
    /\ call.inmsg[1].fin
    /\ call.inmsg[1].opcode \in {TEXT, BINARY}

\* the decoder of the peer: the opposite role, the same extension
PeerDecoder(t) ==
    [Construct(~t.m_server) EXCEPT !.m_permessage_compress = t.m_permessage_compress]

\* the call r of consume took all n bytes and left the message in ready to be
\* retrieved
DecodedAs(in, n, r) ==
    /\ r.ec = NoError
    /\ r.p = n
    /\ ready(r.t)
    /\ get_message(r.t).ret # NullMsg
    /\ get_message(r.t).ret[1].opcode = in.opcode
    /\ get_message(r.t).ret[1].payload = in.payload

\* the bytes of the frame the last call prepared
PreparedBytes == call.after[1].header \o call.after[1].payload

\* C12: the header and payload prepare_data_frame produces for a whole text or
\* binary message are consumed entirely and without error by a decoder of the
\* opposite role, which is then ready and returns the opcode and the payload of
\* the message; stated for the calls in which the compressor, if used, works.
C12_RoundTrip ==
    (PreparedMessage /\ call.compress_ok) =>
        DecodedAs(call.inmsg[1], Len(PreparedBytes),
                  consume(PeerDecoder(this), PreparedBytes))

\* C15: the length the header of a prepared data frame gives is the number of
\* payload bytes stored in the output message, with compression too; stated for
\* the calls in which the compressor, if used, works.
C15_HeaderEncodesStoredLength ==
    (PreparedOk("prepare_data_frame") /\ call.compress_ok)
        => OutLength = Len(call.after[1].payload)

\* the last call of prepare_data_frame reached the compressor, which failed
CompressFailed ==
    /\ last = "prepare_data_frame"
    /\ call.inmsg # NullMsg
    /\ call.before # NullMsg
    /\ ~is_control(call.inmsg[1].opcode)
    /\ call.inmsg[1].opcode = TEXT => validate(call.inmsg[1].payload)
    /\ this.m_permessage_compress
    /\ call.inmsg[1].compressed
    /\ ~call.compress_ok

\* C17: when the compressor fails, prepare_data_frame returns an error and
\* does not mark the output prepared.
C17_CompressFailureSurfaced ==
    CompressFailed => ec # NoError /\ ~MarkedPrepared


(***************************************************************************)
(* The payload of an open message.                                         *)
(***************************************************************************)
\* a text message is open and no call has reported an error
TextOpen(t) ==
    /\ ~failed
    /\ t.m_data_msg.msg_ptr # NullMsg
    /\ t.m_data_msg.msg_ptr[1].opcode = TEXT

\* the validator after every byte of the buffer went through it once, in order
ValidatedOnce(buffer) == validator_decode(UTF8_ACCEPT, buffer).state

\* C21: process_payload_bytes gives the validator the bytes it has just added
\* to the buffer of a text message, decompressed or not, so that the validator
\* of an open text message is in the state that the bytes of the buffer, each
\* taken once and in order, lead to.
C21_ValidatesAppendedBytes ==
    (last = "consume" /\ TextOpen(this)) =>
        this.m_data_msg.validator = ValidatedOnce(this.m_data_msg.msg_ptr[1].payload)


\* the call that is returning took the last byte of HeadFrame, a data frame
\* that is not final, and no more
EndsFragment ==
    /\ ~failed
    /\ cuts # <<>>
    /\ ~is_control(HeadFrame.op)
    /\ ~HeadFrame.fin
    /\ last' = "consume"
    /\ ec' = NoError
    /\ ret' > 0
    /\ ret' = cuts[1].left

\* the call that is returning read header bytes of HeadFrame, a continuation
\* of the open message, and none of its payload
ReadsContinuationHeader ==
    /\ ~failed
    /\ cuts # <<>>
    /\ HeadFrame.op = CONTINUATION
    /\ DataOpen(this)
    /\ this.m_state \in {HEADER_BASIC, HEADER_EXTENDED}
    /\ last' = "consume"
    /\ ec' = NoError
    /\ Len(cuts') = Len(cuts)
    /\ cuts'[1].left >= Len(HeadFrame.payload)

\* the key of a frame as the decoder takes it from the header
FrameKey(f) == IF f.mask THEN f.key ELSE ZeroKey

\* C22: when the payload of a data frame with FIN=0 is consumed to its end the
\* decoder is back in HEADER_BASIC with 2 bytes needed, not ready, get_message
\* returns null and the data message holds the payload received so far; while
\* the header of the following continuation is read the data message stays as
\* it is, and when that header is complete only its key is replaced, by the key
\* of the continuation.
C22_FragmentKeepsMessageOpen ==
    [][/\ EndsFragment
            => /\ this'.m_state = HEADER_BASIC
               /\ this'.m_bytes_needed = BASIC_HEADER_LENGTH
               /\ ~ready(this')
               /\ get_message(this') = [this |-> this', ret |-> NullMsg]
               /\ this'.m_data_msg.msg_ptr = sent'
               /\ sent' # NullMsg
       /\ ReadsContinuationHeader
            => this'.m_data_msg =
                  IF this'.m_state = APPLICATION
                  THEN [this.m_data_msg EXCEPT
                            !.prepared_key = prepare_masking_key(FrameKey(HeadFrame))]
                  ELSE this.m_data_msg]_vars

\* a server has read the header of a masked continuation and holds the payload
\* of the fragments before it
C22_Witness ==
    /\ last = "consume"
    /\ ~failed
    /\ this.m_state = APPLICATION
    /\ get_opcode(this.m_basic_header) = CONTINUATION
    /\ cuts # <<>>
    /\ cuts[1].left = Len(cuts[1].f.payload)
    /\ this.m_data_msg.msg_ptr # NullMsg
    /\ this.m_data_msg.msg_ptr[1].payload # <<>>
    /\ this.m_data_msg.prepared_key # ZeroKey
    /\ this.m_data_msg.prepared_key = cuts[1].f.key


(***************************************************************************)
(* The end of a message.                                                   *)
(***************************************************************************)
\* the opcode and the payload of the message that frame f completes
MessageOpcode(f) == IF sent = NullMsg THEN f.op ELSE sent[1].opcode
MessagePayload(t, f) ==
    (IF sent = NullMsg THEN <<>> ELSE sent[1].payload) \o Delivered(t, f)

\* f is a valid final frame for processor t: masked as the role of t requires,
\* its length in the basic header, a control frame or a data frame in sequence
\* whose reserved bits t accepts, and text that is UTF-8 when it ends a text
\* message
ValidFinalFrame(t, f) ==
    /\ f.fin
    /\ f.mask = t.m_server
    /\ f.code = Len(f.payload)
    /\ f.op \in {CONTINUATION, TEXT, BINARY, CLOSE, PING, PONG}
    /\ IF is_control(f.op) THEN f.rsv = 0
       ELSE /\ RsvAccepted(t, f)
            /\ f.op = CONTINUATION <=> sent # NullMsg
            /\ MessageOpcode(f) = TEXT => validate(MessagePayload(t, f))

\* the call r took the k bytes up to the end of the frame and left its message
\* ready
ReadyAt(r, k) == ready(r.t) /\ r.ec = NoError /\ r.p = k

\* C23: for every valid final frame, with an empty payload or not, masked or
\* not, the consume call whose chunk holds the last byte of the frame returns
\* with ready() true, having taken the bytes up to the end of the frame.
C23_ReadyWithLastByte ==
    \A n \in 1..MaxChunk :
        (/\ ~failed
         /\ ~ready(this)
         /\ cuts # <<>>
         /\ ValidFinalFrame(this, cuts[1].f)
         /\ cuts[1].left <= n
         /\ n <= Len(wire))
            => ReadyAt(consume(this, Take(wire, n)), cuts[1].left)


(***************************************************************************)
(* The order of the checks of the basic header.                            *)
(***************************************************************************)
\* the rules of the basic header in the order of precedence, each with whether
\* frame f breaks it for processor t and the error that reports it
HeaderRules(t, f) ==
    <<[broken |-> f.op >= 8 /\ f.code > 125, ec |-> "control_too_big"],
      [broken |-> \/ f.rsv \div 4 = 1 /\ (~t.m_permessage_compress \/ f.op >= 8)
                  \/ f.rsv % 4 # 0,
       ec |-> "invalid_rsv_bit"],
      [broken |-> f.op \notin {CONTINUATION, TEXT, BINARY, CLOSE, PING, PONG},
       ec |-> "invalid_opcode"],
      [broken |-> f.op >= 8 /\ ~f.fin, ec |-> "fragmented_control"],
      [broken |-> \/ f.op = CONTINUATION /\ ~DataOpen(t)
                  \/ f.op \in {TEXT, BINARY} /\ DataOpen(t),
       ec |-> "invalid_continuation"],
      [broken |-> f.mask # t.m_server, ec |-> MaskingError(t)]>>

\* the rules of the sequence that are broken
Broken(rules) == {i \in 1..Len(rules) : rules[i].broken}

\* the error of the first broken rule, none when no rule is broken
FirstBroken(rules) ==
    IF Broken(rules) = {} THEN NoError
    ELSE rules[CHOOSE i \in Broken(rules) : \A j \in Broken(rules) : i <= j].ec

\* C24: a basic header that breaks several rules is reported with the error
\* of the first broken rule in the order control_too_big, invalid_rsv_bit,
\* invalid_opcode, fragmented_control, invalid_continuation, masking; the error
\* is a function of the header, the role, whether a data message is open and
\* whether compression is enabled.
C24_HeaderErrorPrecedence ==
    [][CompletesBasicHeader => ec' = FirstBroken(HeaderRules(this, HeadFrame))]_vars

\* a server with a data message open has rejected an unmasked PONG header with
\* FIN=0, all reserved bits set and length code 126 for its size
C24_Witness ==
    /\ last = "consume"
    /\ ec = "control_too_big"
    /\ this.m_server
    /\ DataOpen(this)
    /\ this.m_basic_header = [b0 |-> 112 + PONG, b1 |-> payload_size_code_16bit]


(***************************************************************************)
(* The extended-header buffer.                                             *)
(***************************************************************************)
\* the length of the extended header that the second byte b1 of the basic
\* header dictates: 0, 2 or 8 length bytes and 0 or 4 key bytes
DictatedLength(b1) ==
    (IF b1 % 128 = 126 THEN 2 ELSE IF b1 % 128 = 127 THEN 8 ELSE 0)
    + (IF b1 >= 128 THEN 4 ELSE 0)

\* processor t, if in HEADER_EXTENDED, has read m_cursor bytes of the extended
\* header and needs the rest of it, all within the buffer
WithinExtendedHeader(t) ==
    t.m_state = HEADER_EXTENDED =>
        /\ t.m_cursor + t.m_bytes_needed = DictatedLength(t.m_basic_header.b1)
        /\ t.m_cursor + t.m_bytes_needed <= MAX_EXTENDED_HEADER_LENGTH

\* WithinExtendedHeader holds before every pass of the loop of the call c and
\* when it returns
RECURSIVE WithinThroughout(_)
WithinThroughout(c) ==
    /\ WithinExtendedHeader(c.t)
    /\ (c.brk \/ ~LoopCond(c) \/ WithinThroughout(LoopBody(c)))

\* C25: whenever the decoder is in HEADER_EXTENDED, between calls and inside a
\* consume call on any chunk, m_cursor plus m_bytes_needed is the length of the
\* extended header that the basic header dictates, at most 12, so that
\* copy_extended_header_bytes writes inside the buffer.
C25_ExtendedHeaderInBounds ==
    \A n \in 0..MaxChunk :
        n <= Len(wire) => WithinThroughout(Entry(this, Take(wire, n)))

\* part of an extended header of 12 bytes has been read
C25_Witness ==
    /\ last = "consume"
    /\ this.m_state = HEADER_EXTENDED
    /\ this.m_cursor > 0
    /\ this.m_bytes_needed > 0
    /\ this.m_cursor + this.m_bytes_needed = MAX_EXTENDED_HEADER_LENGTH

=============================================================================
